---- MODULE Spec2Model ----
(***************************************************************************)
(* Job/resume matching pipeline (cjgruenke/CS325Project1).                 *)
(*                                                                         *)
(* Specification Spec: the orchestrator of main.py running the four stage  *)
(* scripts as child processes over a shared working directory.  The state  *)
(* is the command line, the environment, the set of files that exist, the  *)
(* orchestrator's position in orchestrate(), and the position of the child *)
(* script that run_script() is waiting for.                                *)
(***************************************************************************)
EXTENDS Integers, FiniteSets, Sequences, TLC

(* ---------------------------------------------------------------------- *)
(* Bounds of the model                                                     *)
(* ---------------------------------------------------------------------- *)
\* number of orchestrator invocations over the same directory
MaxInvocations == 2
\* largest number of embedding batches a cleaned_jobs.json gives rise to
MaxBatches == 1

(* ---------------------------------------------------------------------- *)
(* main.py CONFIG                                                          *)
(* ---------------------------------------------------------------------- *)
STAGE1_RAW == "indeed_response_raw.json"
STAGE1_OUT == "stage1_jobs.json"
STAGE1_OUT_CSV == "stage1_jobs.csv"
STAGE2_OUT_JSON == "cleaned_jobs.json"
STAGE2_OUT_CSV == "cleaned_jobs.csv"
STAGE2_RESUME_PROCESSED == "processed_resume.txt"
STAGE2_RESUME_SECTIONS == "resume_sections.json"
STAGE3_JOBS_EMBED == "jobs_embeddings.jsonl"
STAGE3_JOBS_NPY == "jobs_embeddings.npy"
STAGE3_RESUME_EMBED == "resume_embedding.json"
STAGE4_TOP == "top_jobs.json"
STAGE4_TOP_CSV == "top_jobs.csv"

SKIP_IF_OUTPUT_EXISTS == TRUE
MAX_STAGE1_RUNS == 1

Files ==
  { STAGE1_RAW, STAGE1_OUT, STAGE1_OUT_CSV,
    STAGE2_OUT_JSON, STAGE2_OUT_CSV, STAGE2_RESUME_PROCESSED, STAGE2_RESUME_SECTIONS,
    STAGE3_JOBS_EMBED, STAGE3_JOBS_NPY, STAGE3_RESUME_EMBED,
    STAGE4_TOP, STAGE4_TOP_CSV }

\* Acquire = 1, Clean = 2, Embed = 3, Rank = 4
Stages == 1..4

\* the files each stage script writes
StageFiles(s) ==
  CASE s = 1 -> {STAGE1_RAW, STAGE1_OUT, STAGE1_OUT_CSV}
    [] s = 2 -> {STAGE2_OUT_JSON, STAGE2_OUT_CSV, STAGE2_RESUME_PROCESSED, STAGE2_RESUME_SECTIONS}
    [] s = 3 -> {STAGE3_JOBS_EMBED, STAGE3_JOBS_NPY, STAGE3_RESUME_EMBED}
    [] s = 4 -> {STAGE4_TOP, STAGE4_TOP_CSV}

\* the resume file named on the command line: missing, a .pdf/.txt with text,
\* a .pdf/.txt whose text is empty, or a file of another format
ResumeKinds == {"absent", "text", "empty", "unsupported"}

\* what the listing provider answers to the one POST of Stage 1
ProviderResponses == {"jobs", "http_error", "exception", "bad_json", "no_jobs", "bad_job"}

\* stage outcomes
PENDING == "PENDING"
SKIPPED == "SKIPPED"
RUNNING == "RUNNING"
SUCCEEDED == "SUCCEEDED"
FAILED == "FAILED"
FAILED_PRECONDITION == "FAILED_PRECONDITION"
Terminal == {SKIPPED, SUCCEEDED, FAILED, FAILED_PRECONDITION}

\* orchestrate() has not returned
NoRc == 0 - 1

VARIABLES
  args,         \* parsed command line: skip flags, continue_on_error, force_stage1
  env,          \* which credentials the environment holds
  resume,       \* kind of the resume file at args.resume
  files,        \* names of the files that exist in the working directory
  opc,          \* orchestrate(): 1..4 = at/in that stage's block, 5 = after Stage 4, 0 = returned
  ret,          \* value orchestrate() returned, NoRc before
  stage1_runs,  \* main.py local of the same name
  status,       \* outcome of each stage in this invocation
  cpc,          \* position of the child script run_script() waits for, "idle" if none
  batches,      \* Stage 3: chunks still to embed
  embed_calls,  \* calls of call_openai_embeddings in this invocation
  posts,        \* session.post calls to the listing provider in this invocation
  wrote,        \* files written in this invocation
  files0,       \* files that existed when this invocation started
  inv,          \* number of this invocation
  prev,         \* stage outcomes and return code of the previous invocation
  emb,          \* Stage 3 seen from inside: main() and call_openai_embeddings (SpecEmbed)
  rk,           \* Stage 4 seen from inside: rank_jobs (SpecRank)
  rs,           \* one call of run_script and the rc test after it (SpecRunScript)
  sc            \* the alternate-payload acquisition script seen from inside (SpecScraper)

vars == << args, env, resume, files, opc, ret, stage1_runs, status, cpc, batches,
           embed_calls, posts, wrote, files0, inv, prev, emb, rk, rs, sc >>

\* the variables of the orchestrator specification
orchVars == << args, env, resume, files, opc, ret, stage1_runs, status, cpc, batches,
               embed_calls, posts, wrote, files0, inv, prev >>

\* value of emb, rk and rs while the specification at hand does not look inside the stage
Off == [pc |-> "off"]

(* ---------------------------------------------------------------------- *)
(* orchestrate(): flags and skip tests                                     *)
(* ---------------------------------------------------------------------- *)
stop_on_error_always == TRUE
stop_on_error_never == FALSE
stop_on_error == ~ args.continue_on_error

HasKeyAlways(k) == TRUE
HasKey(k) == env[k]

skip_flag(s) == args.skip[s]

OutputExistsAnyOf(s) ==
  CASE s = 1 -> STAGE1_OUT \in files /\ ~ args.force_stage1
    [] s = 2 -> STAGE2_OUT_JSON \in files
    [] s = 3 -> STAGE3_JOBS_EMBED \in files \/ STAGE3_RESUME_EMBED \in files
    [] s = 4 -> STAGE4_TOP \in files
OutputExistsWrongFile(s) ==
  CASE s = 1 -> STAGE1_OUT \in files /\ ~ args.force_stage1
    [] s = 2 -> STAGE2_OUT_JSON \in files
    [] s = 3 -> STAGE3_JOBS_EMBED \in files /\ STAGE4_TOP \in files
    [] s = 4 -> STAGE4_TOP \in files
\* a skip test that gives way when the stage before was run in this invocation
OutputExistsUnlessUpstreamRan(s) ==
  CASE s = 1 -> STAGE1_OUT \in files /\ ~ args.force_stage1
    [] s = 2 -> STAGE2_OUT_JSON \in files /\ status[1] \notin {SUCCEEDED, FAILED}
    [] s = 3 -> /\ STAGE3_JOBS_EMBED \in files /\ STAGE3_RESUME_EMBED \in files
                /\ status[2] \notin {SUCCEEDED, FAILED}
    [] s = 4 -> STAGE4_TOP \in files /\ status[3] \notin {SUCCEEDED, FAILED}
\* the "exists" part of each stage's skip test
OutputExists(s) ==
  CASE s = 1 -> STAGE1_OUT \in files /\ ~ args.force_stage1
    [] s = 2 -> STAGE2_OUT_JSON \in files
    [] s = 3 -> STAGE3_JOBS_EMBED \in files /\ STAGE3_RESUME_EMBED \in files
    [] s = 4 -> STAGE4_TOP \in files

\* first position of each stage script
FirstStep(s) ==
  CASE s = 1 -> "s1_import"
    [] s = 2 -> "s2_load"
    [] s = 3 -> "s3_import"
    [] s = 4 -> "s4_load"

\* subprocess.run blocks: orchestrate stays in the stage's block until the child exits
AfterLaunchNoWait(s) == s + 1
AfterLaunch(s) == s

\* run_script: what it returns for the way subprocess.run ended: the child's
\* exit code, 124 for subprocess.TimeoutExpired, 1 for any other exception
run_script_one_failure_code(c) == IF c = "exit0" THEN 0 ELSE 1
run_script(c) ==
  IF c = "exit0" THEN 0
  ELSE IF c = "timeout" THEN 124
  ELSE 1

(* ---------------------------------------------------------------------- *)
(* Initial states                                                          *)
(* ---------------------------------------------------------------------- *)
\* directories a first invocation starts in: for each stage, the files of an
\* earlier complete run of it are all there or all missing
InitialDirs == { UNION { StageFiles(s) : s \in S } : S \in SUBSET Stages }

Init ==
  /\ args \in [ skip : [Stages -> BOOLEAN], continue_on_error : BOOLEAN, force_stage1 : BOOLEAN ]
  /\ env \in [ {"RAPIDAPI_KEY", "OPENAI_API_KEY"} -> BOOLEAN ]
  /\ resume \in ResumeKinds
  /\ files \in InitialDirs
  /\ opc = 1
  /\ ret = NoRc
  /\ stage1_runs = 0
  /\ status = [s \in Stages |-> PENDING]
  /\ cpc = "idle"
  /\ batches = 0
  /\ embed_calls = 0
  /\ posts = 0
  /\ wrote = {}
  /\ files0 = files
  /\ inv = 1
  /\ prev = [status |-> [s \in Stages |-> PENDING], ret |-> NoRc]
  /\ emb = Off
  /\ rk = Off
  /\ rs = Off
  /\ sc = Off

(* ---------------------------------------------------------------------- *)
(* orchestrate(): one stage block, up to the call of run_script            *)
(* ---------------------------------------------------------------------- *)
Skip(s) ==
  /\ status' = [status EXCEPT ![s] = SKIPPED]
  /\ opc' = s + 1
  /\ UNCHANGED << ret, stage1_runs, cpc >>

Launch(s) ==
  /\ status' = [status EXCEPT ![s] = RUNNING]
  /\ cpc' = FirstStep(s)
  /\ opc' = AfterLaunch(s)
  /\ UNCHANGED << ret, stage1_runs >>

StageBlock(s) ==
  /\ opc = s
  /\ status[s] = PENDING
  /\ IF skip_flag(s) THEN Skip(s)
     ELSE IF SKIP_IF_OUTPUT_EXISTS /\ OutputExists(s) THEN Skip(s)
     ELSE IF s = 1 /\ stage1_runs >= MAX_STAGE1_RUNS THEN Skip(s)
     ELSE IF s = 3 /\ ~ HasKey("OPENAI_API_KEY")
          THEN /\ status' = [status EXCEPT ![s] = FAILED_PRECONDITION]
               /\ IF stop_on_error
                  THEN ret' = 1 /\ opc' = 0
                  ELSE ret' = ret /\ opc' = s + 1
               /\ UNCHANGED << stage1_runs, cpc >>
     ELSE Launch(s)
  /\ UNCHANGED << args, env, resume, files, batches, embed_calls, posts, wrote,
                  files0, inv, prev, emb, rk, rs, sc >>

\* a stage block that runs its script again when it failed
StageReturnRetry(s) ==
  /\ opc = s
  /\ status[s] = RUNNING
  /\ cpc \in {"exit0", "exit1"}
  /\ LET rc == run_script(cpc) IN
       /\ stage1_runs' = IF s = 1 THEN stage1_runs + 1 ELSE stage1_runs
       /\ IF rc # 0
          THEN /\ cpc' = FirstStep(s)
               /\ UNCHANGED << status, ret, opc >>
          ELSE /\ status' = [status EXCEPT ![s] = SUCCEEDED]
               /\ cpc' = "idle"
               /\ ret' = ret
               /\ opc' = s + 1
  /\ UNCHANGED << args, env, resume, files, batches, embed_calls, posts, wrote,
                  files0, inv, prev, emb, rk, rs, sc >>

\* a stage block that puts a failed stage back in line
StageReturnRequeue(s) ==
  /\ opc = s
  /\ status[s] = RUNNING
  /\ cpc \in {"exit0", "exit1"}
  /\ LET rc == run_script(cpc) IN
       /\ status' = [status EXCEPT ![s] = IF rc = 0 THEN SUCCEEDED ELSE PENDING]
       /\ stage1_runs' = IF s = 1 THEN stage1_runs + 1 ELSE stage1_runs
       /\ ret' = ret
       /\ opc' = IF rc = 0 THEN s + 1 ELSE s
  /\ cpc' = "idle"
  /\ UNCHANGED << args, env, resume, files, batches, embed_calls, posts, wrote,
                  files0, inv, prev, emb, rk, rs, sc >>

\* run_script returned: the rc test that follows it
StageReturn(s) ==
  /\ opc = s
  /\ status[s] = RUNNING
  /\ cpc \in {"exit0", "exit1"}
  /\ LET rc == run_script(cpc) IN
       /\ status' = [status EXCEPT ![s] = IF rc = 0 THEN SUCCEEDED ELSE FAILED]
       /\ stage1_runs' = IF s = 1 THEN stage1_runs + 1 ELSE stage1_runs
       /\ IF rc # 0 /\ stop_on_error
          THEN ret' = rc /\ opc' = 0
          ELSE ret' = ret /\ opc' = s + 1
  /\ cpc' = "idle"
  /\ UNCHANGED << args, env, resume, files, batches, embed_calls, posts, wrote,
                  files0, inv, prev, emb, rk, rs, sc >>

\* "Pipeline completed."
Complete ==
  /\ opc = 5
  /\ ret' = 0
  /\ opc' = 0
  /\ UNCHANGED << args, env, resume, files, stage1_runs, status, cpc, batches,
                  embed_calls, posts, wrote, files0, inv, prev, emb, rk, rs, sc >>

\* the operator runs the orchestrator again: same command line, same directory
Invoke ==
  /\ opc = 0
  /\ inv < MaxInvocations
  /\ inv' = inv + 1
  /\ prev' = [status |-> status, ret |-> ret]
  /\ opc' = 1
  /\ ret' = NoRc
  /\ stage1_runs' = 0
  /\ status' = [s \in Stages |-> PENDING]
  /\ embed_calls' = 0
  /\ posts' = 0
  /\ wrote' = {}
  /\ files0' = files
  /\ UNCHANGED << args, env, resume, files, cpc, batches, emb, rk, rs, sc >>

(* ---------------------------------------------------------------------- *)
(* The stage scripts, run as the child of run_script                       *)
(* ---------------------------------------------------------------------- *)
\* a child step leaves the orchestrator and its inputs alone
ChildFrame ==
  UNCHANGED << args, env, resume, opc, ret, stage1_runs, status, files0, inv, prev, emb, rk, rs, sc >>

\* a write that first clears the working directory
WriteClearing(f) ==
  /\ files' = {f}
  /\ wrote' = wrote \cup {f}

Write(f) ==
  /\ files' = files \cup {f}
  /\ wrote' = wrote \cup {f}

\* Stage1DataAcquisition.py, module level: the credential test
S1Import ==
  /\ cpc = "s1_import"
  /\ cpc' = IF HasKey("RAPIDAPI_KEY") THEN "s1_post" ELSE "exit1"
  /\ UNCHANGED << files, wrote, batches, embed_calls, posts >>
  /\ ChildFrame

\* Stage1 main(): the POST, save_raw, find_jobs and flatten_job
S1Post ==
  /\ cpc = "s1_post"
  /\ posts' = posts + 1
  /\ \E r \in ProviderResponses :
       CASE r = "exception"  -> cpc' = "exit0" /\ UNCHANGED << files, wrote >>
         [] r = "http_error" -> cpc' = "exit0" /\ Write(STAGE1_RAW)
         [] r = "bad_json"   -> cpc' = "exit1" /\ UNCHANGED << files, wrote >>
         [] r = "no_jobs"    -> cpc' = "exit0" /\ Write(STAGE1_RAW)
         [] r = "bad_job"    -> cpc' = "exit1" /\ Write(STAGE1_RAW)
         [] r = "jobs"       -> cpc' = "s1_write_json" /\ Write(STAGE1_RAW)
  /\ UNCHANGED << batches, embed_calls >>
  /\ ChildFrame

\* Stage1 write_outputs(): the JSON file, then the CSV file
S1WriteJson ==
  /\ cpc = "s1_write_json"
  /\ Write(STAGE1_OUT)
  /\ cpc' = "s1_write_csv"
  /\ UNCHANGED << batches, embed_calls, posts >>
  /\ ChildFrame

S1WriteCsv ==
  /\ cpc = "s1_write_csv"
  /\ Write(STAGE1_OUT_CSV)
  /\ cpc' = "exit0"
  /\ UNCHANGED << batches, embed_calls, posts >>
  /\ ChildFrame

\* Stage2 load_stage1_data(): FileNotFoundError is caught by main(), which returns
Stage1DataFound == STAGE1_OUT \in files \/ STAGE1_OUT_CSV \in files

\* Stage2 main(): load, then preprocess_job_record over the records
\* (a record whose fields are not strings raises)
S2Load ==
  /\ cpc = "s2_load"
  /\ IF ~ Stage1DataFound
     THEN cpc' = "exit0"
     ELSE \E record_ok \in BOOLEAN :
            cpc' = IF record_ok THEN "s2_write_json" ELSE "exit1"
  /\ UNCHANGED << files, wrote, batches, embed_calls, posts >>
  /\ ChildFrame

S2WriteJson ==
  /\ cpc = "s2_write_json"
  /\ Write(STAGE2_OUT_JSON)
  /\ cpc' = "s2_write_csv"
  /\ UNCHANGED << batches, embed_calls, posts >>
  /\ ChildFrame

S2WriteCsv ==
  /\ cpc = "s2_write_csv"
  /\ Write(STAGE2_OUT_CSV)
  /\ cpc' = "s2_resume"
  /\ UNCHANGED << batches, embed_calls, posts >>
  /\ ChildFrame

\* Stage2 main(): read_resume raises on a format other than .pdf/.txt
S2Resume ==
  /\ cpc = "s2_resume"
  /\ CASE resume = "absent"      -> cpc' = "exit0" /\ UNCHANGED << files, wrote >>
       [] resume = "unsupported" -> cpc' = "exit1" /\ UNCHANGED << files, wrote >>
       [] OTHER                  -> cpc' = "s2_write_sections" /\ Write(STAGE2_RESUME_PROCESSED)
  /\ UNCHANGED << batches, embed_calls, posts >>
  /\ ChildFrame

S2WriteSections ==
  /\ cpc = "s2_write_sections"
  /\ Write(STAGE2_RESUME_SECTIONS)
  /\ cpc' = "exit0"
  /\ UNCHANGED << batches, embed_calls, posts >>
  /\ ChildFrame

\* Stage3OpenAIEmbedding.py, module level: the credential test
S3Import ==
  /\ cpc = "s3_import"
  /\ cpc' = IF HasKey("OPENAI_API_KEY") THEN "s3_load" ELSE "exit1"
  /\ UNCHANGED << files, wrote, batches, embed_calls, posts >>
  /\ ChildFrame

\* Stage3 load_jobs() and the chunking of the inputs
S3Load ==
  /\ cpc = "s3_load"
  /\ IF STAGE2_OUT_JSON \notin files
     THEN cpc' = "exit1" /\ batches' = batches
     ELSE \E n \in 0..MaxBatches :
            /\ batches' = n
            /\ cpc' = IF n = 0 THEN "s3_write_jsonl" ELSE "s3_batch"
  /\ UNCHANGED << files, wrote, embed_calls, posts >>
  /\ ChildFrame

\* Stage3 main(): one call_openai_embeddings per chunk; it returns or raises
S3Batch ==
  /\ cpc = "s3_batch"
  /\ embed_calls' = embed_calls + 1
  /\ \E ok \in BOOLEAN :
       IF ok
       THEN /\ batches' = batches - 1
            /\ cpc' = IF batches = 1 THEN "s3_write_jsonl" ELSE "s3_batch"
       ELSE /\ batches' = 0
            /\ cpc' = "exit1"
  /\ UNCHANGED << files, wrote, posts >>
  /\ ChildFrame

S3WriteJsonl ==
  /\ cpc = "s3_write_jsonl"
  /\ Write(STAGE3_JOBS_EMBED)
  /\ cpc' = "s3_write_npy"
  /\ UNCHANGED << batches, embed_calls, posts >>
  /\ ChildFrame

S3WriteNpy ==
  /\ cpc = "s3_write_npy"
  /\ Write(STAGE3_JOBS_NPY)
  /\ cpc' = "s3_resume"
  /\ UNCHANGED << batches, embed_calls, posts >>
  /\ ChildFrame

\* the text of processed_resume.txt is empty when the resume's text is
ResumeTextEmpty == resume = "empty"

\* Stage3 main(): read_resume_text(), then the single resume call
S3Resume ==
  /\ cpc = "s3_resume"
  /\ IF STAGE2_RESUME_PROCESSED \notin files
     THEN cpc' = "exit1" /\ embed_calls' = embed_calls
     ELSE IF ResumeTextEmpty
     THEN cpc' = "exit0" /\ embed_calls' = embed_calls
     ELSE /\ embed_calls' = embed_calls + 1
          /\ \E ok \in BOOLEAN : cpc' = IF ok THEN "s3_write_resume" ELSE "exit1"
  /\ UNCHANGED << files, wrote, batches, posts >>
  /\ ChildFrame

S3WriteResume ==
  /\ cpc = "s3_write_resume"
  /\ Write(STAGE3_RESUME_EMBED)
  /\ cpc' = "exit0"
  /\ UNCHANGED << batches, embed_calls, posts >>
  /\ ChildFrame

\* Stage4 rank_jobs(): load_jobs_embeddings, load_resume_embedding, the scoring loop
\* (a line without 'embedding', or vectors of different length, raise)
S4Load ==
  /\ cpc = "s4_load"
  /\ IF STAGE3_JOBS_EMBED \notin files \/ STAGE3_RESUME_EMBED \notin files
     THEN cpc' = "exit1"
     ELSE \E records_ok \in BOOLEAN :
            cpc' = IF records_ok THEN "s4_write_json" ELSE "exit1"
  /\ UNCHANGED << files, wrote, batches, embed_calls, posts >>
  /\ ChildFrame

S4WriteJson ==
  /\ cpc = "s4_write_json"
  /\ Write(STAGE4_TOP)
  /\ cpc' = "s4_write_csv"
  /\ UNCHANGED << batches, embed_calls, posts >>
  /\ ChildFrame

S4WriteCsv ==
  /\ cpc = "s4_write_csv"
  /\ Write(STAGE4_TOP_CSV)
  /\ cpc' = "exit0"
  /\ UNCHANGED << batches, embed_calls, posts >>
  /\ ChildFrame

(* ---------------------------------------------------------------------- *)
(* Specification                                                           *)
(* ---------------------------------------------------------------------- *)
Next ==
  \/ \E s \in Stages : StageBlock(s)
  \/ \E s \in Stages : StageReturn(s)
  \/ Complete
  \/ Invoke
  \/ S1Import \/ S1Post \/ S1WriteJson \/ S1WriteCsv
  \/ S2Load \/ S2WriteJson \/ S2WriteCsv \/ S2Resume \/ S2WriteSections
  \/ S3Import \/ S3Load \/ S3Batch \/ S3WriteJsonl \/ S3WriteNpy \/ S3Resume \/ S3WriteResume
  \/ S4Load \/ S4WriteJson \/ S4WriteCsv

Spec == Init /\ [][Next]_vars

TypeOK ==
  /\ files \subseteq Files
  /\ opc \in 0..5
  /\ ret \in {NoRc, 0, 1}
  /\ stage1_runs \in 0..MAX_STAGE1_RUNS
  /\ status \in [Stages -> {PENDING, RUNNING} \cup Terminal]
  /\ batches \in 0..MaxBatches
  /\ embed_calls \in 0..(MaxBatches + 1)
  /\ posts \in 0..1
  /\ inv \in 1..MaxInvocations

(* ---------------------------------------------------------------------- *)
(* Properties of the orchestrator                                          *)
(* ---------------------------------------------------------------------- *)
\* the output file(s) whose existence is each stage's checkpoint
DeclaredOutputs(s) ==
  CASE s = 1 -> {STAGE1_OUT}
    [] s = 2 -> {STAGE2_OUT_JSON}
    [] s = 3 -> {STAGE3_JOBS_EMBED, STAGE3_RESUME_EMBED}
    [] s = 4 -> {STAGE4_TOP}

\* the stage's script was started in this invocation
WasRun(s) == status[s] \in {RUNNING, SUCCEEDED, FAILED}

\* orchestrate() has returned
Returned == opc = 0

\* C1: stages start in the order Acquire, Clean, Embed, Rank; a stage has left
\* PENDING only when every stage before it has a final outcome, and at most one
\* stage is RUNNING.
C1_StagesInOrder ==
  /\ \A s \in Stages : status[s] # PENDING => \A t \in 1..(s - 1) : status[t] \in Terminal
  /\ Cardinality({s \in Stages : status[s] = RUNNING}) <= 1

C1_Witness ==
  /\ status[1] = SUCCEEDED
  /\ status[2] = SKIPPED
  /\ status[3] = FAILED
  /\ status[4] = RUNNING
  /\ cpc = "s4_load"

\* C2: fail-fast. Without continue_on_error, once a stage run has ended FAILED
\* orchestrate has returned that stage's non-zero code and no later stage has
\* left PENDING.
C2_FailFast ==
  \A s \in Stages :
    (~ args.continue_on_error /\ status[s] = FAILED) =>
      /\ Returned
      /\ ret \notin {NoRc, 0}
      /\ \A t \in (s + 1)..4 : status[t] = PENDING

C2_Witness ==
  /\ ~ args.continue_on_error
  /\ status[1] = SUCCEEDED
  /\ status[2] = FAILED
  /\ ~ args.skip[3]
  /\ Returned

\* C3: continue-on-error. With continue_on_error a failure never ends the
\* invocation: orchestrate returns only from its last line, after every stage
\* was skipped or attempted (run, or refused at its credential check).
C3_ContinueOnError ==
  args.continue_on_error =>
    /\ Returned => \A s \in Stages : status[s] \in Terminal
    /\ \A s \in Stages :
         status[s] \in {FAILED, FAILED_PRECONDITION} => (ret \in {NoRc, 0} /\ (Returned \/ opc > s))

C3_Witness ==
  /\ args.continue_on_error
  /\ status[1] = FAILED
  /\ status[2] = FAILED
  /\ status[3] = FAILED_PRECONDITION
  /\ status[4] = FAILED
  /\ Returned
  /\ ret = 0

\* the skip rule as the specification words it
SkipRule(s) ==
  \/ args.skip[s]
  \/ /\ SKIP_IF_OUTPUT_EXISTS
     /\ DeclaredOutputs(s) \subseteq files
     /\ ~ (s = 1 /\ args.force_stage1)

\* C4: skip rule. Whenever the orchestrator decides a stage, it marks the stage
\* SKIPPED exactly when its skip flag was passed, or its declared output exists
\* and it is not forced; otherwise it goes on to the credential check and the run.
C4_SkipRule ==
  [][ \A s \in Stages :
        (status[s] = PENDING /\ status'[s] # PENDING) =>
          /\ (status'[s] = SKIPPED) <=> SkipRule(s)
          /\ status'[s] \in {SKIPPED, RUNNING, FAILED_PRECONDITION} ]_vars

C4_Witness ==
  /\ status[1] = SKIPPED /\ ~ args.skip[1]
  /\ status[2] = RUNNING
  /\ status[3] = PENDING /\ ~ args.skip[3]
  /\ STAGE3_JOBS_EMBED \in files /\ STAGE3_RESUME_EMBED \in files

\* C5 as written: with jobs_embeddings.jsonl present when the invocation starts,
\* the Embed script is not run and no embedding call is made.
C5_EmbedFilePresent ==
  (SKIP_IF_OUTPUT_EXISTS /\ STAGE3_JOBS_EMBED \in files0) =>
    (~ WasRun(3) /\ embed_calls = 0)

\* C5, amended: with both jobs_embeddings.jsonl and resume_embedding.json present
\* when the invocation starts, the Embed script is not run and no embedding call
\* is made.
C5_BothEmbedFilesPresent ==
  (SKIP_IF_OUTPUT_EXISTS /\ {STAGE3_JOBS_EMBED, STAGE3_RESUME_EMBED} \subseteq files0) =>
    (~ WasRun(3) /\ embed_calls = 0)

C5_Witness ==
  /\ {STAGE3_JOBS_EMBED, STAGE3_RESUME_EMBED} \subseteq files0
  /\ ~ args.skip[3]
  /\ env["OPENAI_API_KEY"]
  /\ status[3] = SKIPPED
  /\ status[4] = SUCCEEDED
  /\ Returned

\* C6 as written: a stage whose credential is absent is not run by the orchestrator.
C6_NoRunWithoutCredential ==
  /\ ~ env["RAPIDAPI_KEY"] => ~ WasRun(1)
  /\ ~ env["OPENAI_API_KEY"] => ~ WasRun(3)

\* C6, amended: without the embedding credential the Embed script is not run, the
\* stage is marked as a precondition failure and orchestrate returns 1 at once
\* unless continue_on_error is set; without the listing credential the Acquire
\* script is still started, makes no provider request, writes no file and ends
\* FAILED, which ends the invocation unless continue_on_error is set.
C6_CredentialPrecondition ==
  /\ ~ env["OPENAI_API_KEY"] =>
       /\ ~ WasRun(3)
       /\ embed_calls = 0
       /\ (status[3] # PENDING /\ ~ SkipRule(3)) => status[3] = FAILED_PRECONDITION
  /\ status[3] = FAILED_PRECONDITION =>
       /\ ~ env["OPENAI_API_KEY"]
       /\ IF args.continue_on_error
          THEN ret \in {NoRc, 0} /\ (Returned \/ opc > 3)
          ELSE Returned /\ ret = 1 /\ status[4] = PENDING
  /\ ~ env["RAPIDAPI_KEY"] =>
       /\ posts = 0
       /\ wrote \cap StageFiles(1) = {}
       /\ status[1] # SUCCEEDED
       /\ (status[1] = FAILED /\ ~ args.continue_on_error) =>
            (Returned /\ ret = 1 /\ \A t \in 2..4 : status[t] = PENDING)

C6_Witness ==
  /\ ~ env["RAPIDAPI_KEY"]
  /\ ~ env["OPENAI_API_KEY"]
  /\ args.continue_on_error
  /\ status[1] = FAILED
  /\ status[3] = FAILED_PRECONDITION
  /\ Returned

\* C7: orchestrate returns 0 only when no stage ended FAILED and no credential
\* was missing for a stage it reached.
C7_ExitCode ==
  ret = 0 => \A s \in Stages : status[s] \notin {FAILED, FAILED_PRECONDITION}

\* the files a stage script needs from upstream
RequiredInputsPresent(s) ==
  CASE s = 1 -> TRUE
    [] s = 2 -> STAGE1_OUT \in files \/ STAGE1_OUT_CSV \in files
    [] s = 3 -> STAGE2_OUT_JSON \in files /\ STAGE2_RESUME_PROCESSED \in files
    [] s = 4 -> STAGE3_JOBS_EMBED \in files

\* C8: a stage script run without a required upstream file ends FAILED, so a
\* stage that ended SUCCEEDED had its upstream files.
C8_MissingUpstreamFails ==
  \A s \in Stages : status[s] = SUCCEEDED => RequiredInputsPresent(s)

\* C9: checkpoint atomicity. A stage run that ended FAILED has not left the
\* stage's checkpoint behind: its declared outputs do not all exist with one of
\* them written by that run.
C9_CheckpointAtomic ==
  \A s \in Stages :
    status[s] = FAILED =>
      ~ (DeclaredOutputs(s) \subseteq files /\ DeclaredOutputs(s) \cap wrote # {})

\* C10: resumption. When the previous invocation halted because stage k FAILED,
\* the next invocation (same flags, same files) skips every earlier stage that
\* had succeeded and runs stage k again.  Stated for command lines without
\* --force-stage1, the flag that asks for Acquire to be run again.
C10_Resumption ==
  \A k \in Stages :
    (inv > 1 /\ ~ args.continue_on_error /\ ~ args.force_stage1 /\ prev.status[k] = FAILED) =>
      /\ \A j \in 1..(k - 1) : prev.status[j] = SUCCEEDED => status[j] \in {PENDING, SKIPPED}
      /\ status[k] \in {PENDING, RUNNING, SUCCEEDED, FAILED}

\* C11: acquisition safety cap. In one invocation the Acquire script is executed
\* at most MAX_STAGE1_RUNS times: the runs counted so far, plus the one in
\* progress, never exceed the cap.
C11_AcquireCap ==
  stage1_runs + (IF status[1] = RUNNING THEN 1 ELSE 0) <= MAX_STAGE1_RUNS

C11_Witness ==
  /\ stage1_runs = MAX_STAGE1_RUNS
  /\ status[1] = FAILED
  /\ args.continue_on_error
  /\ args.force_stage1
  /\ STAGE1_OUT \in files0
  /\ status[4] = RUNNING

(* ====================================================================== *)
(* Specification SpecEmbed: Stage3OpenAIEmbedding.py from the inside.      *)
(* main() chunks the input texts, calls call_openai_embeddings per chunk   *)
(* (retry with backoff), collects the vectors, writes the files, then      *)
(* embeds the resume.  The state is the record emb.                        *)
(* ====================================================================== *)
\* most input texts (cleaned job records) of a run
MaxTexts == 3
\* largest batch size tried for BATCH_SIZE
MaxBatchSize == 2

\* Stage3 CONFIG
MAX_RETRIES == 5
INITIAL_BACKOFF == 1
MAX_BACKOFF == 30
OUT_JSONL == STAGE3_JOBS_EMBED
OUT_NPY == STAGE3_JOBS_NPY
OUT_RESUME == STAGE3_RESUME_EMBED

\* random.random() * 0.1 seconds, in milliseconds: some values of [0, 100)
Jitters == {0, 50, 99}

TRUNCATE_INPUT_CHARS == 32000
\* len(" ... (truncated)")
MARKER_LEN == 16

\* A text is written [src, chars, marker]: the first chars characters of
\* source text src, followed by the truncation marker or not.  Job record i
\* gives source text i; RESUME_TEXT is the text of processed_resume.txt.
RESUME_TEXT == 0 - 1
Text(src, chars) == [src |-> src, chars |-> chars, marker |-> FALSE]
TextLen(x) == x.chars + (IF x.marker THEN MARKER_LEN ELSE 0)

\* lengths of the first job text of a run: the job texts of a run have
\* consecutive lengths from there, so the longer run straddles the cut
FirstLens == {0, TRUNCATE_INPUT_CHARS - 1}

\* if len(text) > TRUNCATE_INPUT_CHARS: text = text[:TRUNCATE_INPUT_CHARS] + marker
TruncateFrom(x) ==
  IF x.chars >= TRUNCATE_INPUT_CHARS
  THEN [x EXCEPT !.chars = TRUNCATE_INPUT_CHARS, !.marker = TRUE]
  ELSE x
Truncate(x) ==
  IF x.chars > TRUNCATE_INPUT_CHARS
  THEN [x EXCEPT !.chars = TRUNCATE_INPUT_CHARS, !.marker = TRUE]
  ELSE x

\* the vector the embedding service computes for a text: the vector of a
\* text cut from source text x is written x
VecOf(x) == x.src
\* a vector that belongs to no submitted text
STRAY_VEC == 0

\* HTTP status codes the service answers with; NO_RESPONSE stands for a
\* requests.RequestException (no response at all)
NO_RESPONSE == 0
StatusCodes == {200, 400, 401, 429, 500, 502, 503, 504}
\* shape of the "data" array of a 200 body: one item per input in order, the
\* last item missing, one item too many, or no "data" key
DataShapes == {"same", "short", "long", "none"}
Responses ==
  { [status |-> 200, data |-> d] : d \in DataShapes }
    \cup { [status |-> c, data |-> "none"] : c \in (StatusCodes \ {200}) \cup {NO_RESPONSE} }
NoResponseYet == [status |-> 0 - 1, data |-> "none"]

Min(a, b) == IF a <= b THEN a ELSE b

\* chunked(iterable, n): iterable[i:i+n] for i in range(0, len(iterable), n)
RECURSIVE chunkedOneMore(_, _)
chunkedOneMore(iterable, n) ==
  IF Len(iterable) = 0 THEN << >>
  ELSE << SubSeq(iterable, 1, Min(n + 1, Len(iterable))) >>
         \o chunkedOneMore(SubSeq(iterable, Min(n + 1, Len(iterable)) + 1, Len(iterable)), n)
RECURSIVE chunked(_, _)
chunked(iterable, n) ==
  IF Len(iterable) = 0 THEN << >>
  ELSE << SubSeq(iterable, 1, Min(n, Len(iterable))) >>
         \o chunked(SubSeq(iterable, Min(n, Len(iterable)) + 1, Len(iterable)), n)

\* [item["embedding"] for item in j["data"]] for a 200 body of the given shape
DataEmbeddings(payload, shape) ==
  CASE shape = "same"  -> [i \in 1..Len(payload) |-> VecOf(payload[i])]
    [] shape = "short" -> [i \in 1..(Len(payload) - 1) |-> VecOf(payload[i])]
    [] shape = "long"  -> [i \in 1..(Len(payload) + 1) |->
                             IF i <= Len(payload) THEN VecOf(payload[i]) ELSE STRAY_VEC]
    [] OTHER           -> << >>

\* call_openai_embeddings: what one response leads to
ClassifyRetryAll(resp) ==
  IF resp.status = 200
  THEN IF resp.data # "none" THEN "return" ELSE "raise"
  ELSE "retry"
Classify(resp) ==
  IF resp.status = 200
  THEN IF resp.data # "none" THEN "return" ELSE "raise"
  ELSE IF resp.status \in {429, 502, 503, 504} THEN "retry"
  ELSE IF resp.status = NO_RESPONSE THEN "retry"
  ELSE "raise"

\* backoff = min(backoff * 2.0, MAX_BACKOFF)
NextBackoffTriple(b) == Min(b * 3, MAX_BACKOFF)
NextBackoff(b) == Min(b * 2, MAX_BACKOFF)

\* for attempt in range(1, MAX_RETRIES + 1): the loop ends after this attempt
LastAttemptOffByOne(attempt) == attempt + 1 >= MAX_RETRIES
LastAttempt(attempt) == attempt >= MAX_RETRIES

\* the orchestrator's variables while a stage is looked at from the inside
OrchOff ==
  /\ args = [skip |-> [s \in Stages |-> FALSE], continue_on_error |-> FALSE, force_stage1 |-> FALSE]
  /\ env = [k \in {"RAPIDAPI_KEY", "OPENAI_API_KEY"} |-> TRUE]
  /\ resume = "text"
  /\ files = {}
  /\ opc = 0
  /\ ret = NoRc
  /\ stage1_runs = 0
  /\ status = [s \in Stages |-> PENDING]
  /\ cpc = "idle"
  /\ batches = 0
  /\ embed_calls = 0
  /\ posts = 0
  /\ wrote = {}
  /\ files0 = {}
  /\ inv = 1
  /\ prev = [status |-> [s \in Stages |-> PENDING], ret |-> NoRc]

\* main() after load_jobs: job record i has meta i and a text of
\* first_len + i - 1 characters
InitEmbed ==
  /\ OrchOff
  /\ rk = Off
  /\ rs = Off
  /\ sc = Off
  /\ \E n \in 0..MaxTexts, b \in 1..MaxBatchSize, r \in {"missing", "empty", "text"},
        first_len \in FirstLens :
       emb = [ pc |-> "main",
               BATCH_SIZE |-> b,
               jobs |-> [i \in 1..n |-> Text(i, first_len + i - 1)],
               resume_chars |-> IF r = "text" THEN first_len + 2 ELSE 0,
               inputs |-> << >>,
               batch_calls |-> 0,
               job_requests |-> 0,
               all_ok |-> TRUE,
               resume_text |-> r,
               chunks |-> << >>,
               idx |-> 0,
               out_lines |-> << >>,
               caller |-> "jobs",
               payload |-> << >>,
               attempt |-> 0,
               backoff |-> 0,
               requests |-> 0,
               sleeps |-> 0,
               last_resp |-> NoResponseYet,
               last_sleep |-> [base |-> 0, jitter |-> 0],
               returned |-> << >>,
               written |-> {} ]

EmbedFrame == UNCHANGED << orchVars, rk, rs, sc >>

\* entry of call_openai_embeddings(inputs, model)
StartCall(e, who, texts) ==
  [e EXCEPT !.pc = "post", !.caller = who, !.payload = texts, !.attempt = 1,
            !.backoff = INITIAL_BACKOFF, !.requests = 0, !.sleeps = 0,
            !.last_resp = NoResponseYet, !.returned = << >>,
            !.last_sleep = [base |-> 0, jitter |-> 0]]

\* main(): the loop that builds inputs and metas, and
\* list(chunked(inputs, BATCH_SIZE))
MainChunks ==
  /\ emb.pc = "main"
  /\ LET inputs == [i \in 1..Len(emb.jobs) |-> Truncate(emb.jobs[i])]
     IN emb' = [emb EXCEPT !.pc = "chunk", !.inputs = inputs,
                           !.chunks = chunked(inputs, emb.BATCH_SIZE)]
  /\ EmbedFrame

\* main(): head of the loop over the chunks
NextChunk ==
  /\ emb.pc = "chunk"
  /\ IF emb.chunks = << >>
     THEN emb' = [emb EXCEPT !.pc = "write_jsonl"]
     ELSE emb' = StartCall([emb EXCEPT !.chunks = Tail(emb.chunks),
                                       !.batch_calls = emb.batch_calls + 1],
                           "jobs", Head(emb.chunks))
  /\ EmbedFrame

\* call_openai_embeddings: one requests.post and the test of its answer
Post ==
  /\ emb.pc = "post"
  /\ \E resp \in Responses :
       LET e == [emb EXCEPT !.requests = emb.requests + 1,
                            !.job_requests = IF emb.caller = "jobs" THEN emb.job_requests + 1
                                             ELSE emb.job_requests,
                            !.all_ok = emb.all_ok /\ resp.status = 200 /\ resp.data # "none",
                            !.last_resp = resp]
       IN CASE Classify(resp) = "return" ->
                 emb' = [e EXCEPT !.pc = "collect",
                                  !.returned = DataEmbeddings(emb.payload, resp.data)]
            [] Classify(resp) = "retry" -> emb' = [e EXCEPT !.pc = "sleep"]
            [] OTHER -> emb' = [e EXCEPT !.pc = "exit1"]
  /\ EmbedFrame

\* a retry that resends the batch without its first text
SleepDropsText ==
  /\ emb.pc = "sleep"
  /\ \E j \in Jitters :
       emb' = [emb EXCEPT !.sleeps = emb.sleeps + 1,
                          !.last_sleep = [base |-> emb.backoff, jitter |-> j],
                          !.backoff = NextBackoff(emb.backoff),
                          !.payload = IF Len(emb.payload) > 1 THEN Tail(emb.payload) ELSE emb.payload,
                          !.attempt = IF LastAttempt(emb.attempt) THEN emb.attempt ELSE emb.attempt + 1,
                          !.pc = IF LastAttempt(emb.attempt) THEN "exit1" ELSE "post"]
  /\ EmbedFrame

\* call_openai_embeddings: time.sleep(backoff + jitter), the doubling, and the
\* end of the for loop (raise after the last attempt)
Sleep ==
  /\ emb.pc = "sleep"
  /\ \E j \in Jitters :
       emb' = [emb EXCEPT !.sleeps = emb.sleeps + 1,
                          !.last_sleep = [base |-> emb.backoff, jitter |-> j],
                          !.backoff = NextBackoff(emb.backoff),
                          !.attempt = IF LastAttempt(emb.attempt) THEN emb.attempt ELSE emb.attempt + 1,
                          !.pc = IF LastAttempt(emb.attempt) THEN "exit1" ELSE "post"]
  /\ EmbedFrame

\* a main() that writes jobs_embeddings.jsonl as each batch comes back
CollectWritesFile ==
  /\ emb.pc = "collect"
  /\ IF emb.caller = "jobs"
     THEN IF emb.idx + Len(emb.returned) > Len(emb.inputs)
          THEN emb' = [emb EXCEPT !.pc = "exit1"]
          ELSE emb' = [emb EXCEPT
                         !.pc = "chunk",
                         !.idx = emb.idx + Len(emb.returned),
                         !.written = emb.written \cup {OUT_JSONL},
                         !.out_lines = emb.out_lines \o
                            [k \in 1..Len(emb.returned) |->
                               [meta |-> emb.idx + k, embedding |-> emb.returned[k]]]]
     ELSE IF emb.returned = << >>
          THEN emb' = [emb EXCEPT !.pc = "exit1"]
          ELSE emb' = [emb EXCEPT !.pc = "exit0", !.written = emb.written \cup {OUT_RESUME}]
  /\ EmbedFrame

\* main(): for e in embeddings: metas[idx] ... idx += 1 (IndexError past the
\* last meta); for the resume call: call_openai_embeddings([resume_text])[0]
Collect ==
  /\ emb.pc = "collect"
  /\ IF emb.caller = "jobs"
     THEN IF emb.idx + Len(emb.returned) > Len(emb.inputs)
          THEN emb' = [emb EXCEPT !.pc = "exit1"]
          ELSE emb' = [emb EXCEPT
                         !.pc = "chunk",
                         !.idx = emb.idx + Len(emb.returned),
                         !.out_lines = emb.out_lines \o
                            [k \in 1..Len(emb.returned) |->
                               [meta |-> emb.idx + k, embedding |-> emb.returned[k]]]]
     ELSE IF emb.returned = << >>
          THEN emb' = [emb EXCEPT !.pc = "exit1"]
          ELSE emb' = [emb EXCEPT !.pc = "exit0", !.written = emb.written \cup {OUT_RESUME}]
  /\ EmbedFrame

\* main(): write jobs_embeddings.jsonl
EmbWriteJsonl ==
  /\ emb.pc = "write_jsonl"
  /\ emb' = [emb EXCEPT !.pc = "write_npy", !.written = emb.written \cup {OUT_JSONL}]
  /\ EmbedFrame

\* main(): np.save
EmbWriteNpy ==
  /\ emb.pc = "write_npy"
  /\ emb' = [emb EXCEPT !.pc = "resume", !.written = emb.written \cup {OUT_NPY}]
  /\ EmbedFrame

\* main(): read_resume_text().strip() and the single resume call
EmbResume ==
  /\ emb.pc = "resume"
  /\ emb' = CASE emb.resume_text = "missing" -> [emb EXCEPT !.pc = "exit1"]
              [] emb.resume_text = "empty"   -> [emb EXCEPT !.pc = "exit0"]
              [] OTHER ->
                   StartCall(emb, "resume", << Truncate(Text(RESUME_TEXT, emb.resume_chars)) >>)
  /\ EmbedFrame

NextEmbed ==
  \/ MainChunks \/ NextChunk \/ Post \/ Sleep \/ Collect
  \/ EmbWriteJsonl \/ EmbWriteNpy \/ EmbResume

SpecEmbed == InitEmbed /\ [][NextEmbed]_vars

\* the responses claim C12 calls transient
IsTransientError(resp) == resp.status \in {429, 502, 503, 504, NO_RESPONSE}

\* C12: retry bound. A call whose every request was answered with a transient
\* error (429, 502, 503, 504 or a network exception) makes exactly MAX_RETRIES
\* requests, no more and no fewer, and then fails, which ends the Embed stage
\* with a failure and, for a jobs batch, with no output file written.  (Any
\* other answer ends the call at once, so the last answer being transient
\* means all of them were.)
C12_RetryBound ==
  /\ emb.requests <= MAX_RETRIES
  /\ (emb.pc = "exit1" /\ IsTransientError(emb.last_resp)) => emb.requests = MAX_RETRIES
  /\ (IsTransientError(emb.last_resp) /\ emb.requests = MAX_RETRIES) => emb.pc \in {"sleep", "exit1"}
  /\ (IsTransientError(emb.last_resp) /\ emb.requests < MAX_RETRIES) => emb.pc \in {"sleep", "post"}
  /\ (emb.pc = "exit1" /\ IsTransientError(emb.last_resp) /\ emb.caller = "jobs") => emb.written = {}

C12_Witness ==
  /\ emb.pc = "exit1"
  /\ emb.caller = "jobs"
  /\ emb.last_resp.status = 503
  /\ emb.requests = MAX_RETRIES
  /\ Len(emb.out_lines) > 0

\* C13: non-transient errors are never retried. An attempt answered with a
\* 4xx status other than 429 (400 malformed request, 401 authentication
\* failure) ends the call with a fatal error on that attempt: the stage has
\* failed, no further request is made and no wait follows the attempt (each
\* earlier attempt was followed by one wait, this one by none).
C13_NonTransientFatal ==
  emb.last_resp.status \in {400, 401} =>
    /\ emb.pc = "exit1"
    /\ emb.sleeps = emb.requests - 1

C13_Witness ==
  /\ emb.last_resp.status = 401
  /\ emb.pc = "exit1"
  /\ emb.requests = 3
  /\ emb.sleeps = 2
  /\ emb.caller = "resume"

\* C14: transient classification. Every rate-limit response (429), every 5xx
\* response and every network exception is followed by a backoff wait and,
\* while fewer than MAX_RETRIES requests were made, by a retry, never by an
\* immediate fatal error.
C14_Transient5xx ==
  (emb.last_resp.status = 429 \/ emb.last_resp.status \in 500..599
     \/ emb.last_resp.status = NO_RESPONSE) =>
    /\ emb.pc \in {"sleep", "post", "exit1"}
    /\ emb.pc = "sleep" => emb.sleeps = emb.requests - 1
    /\ emb.pc \in {"post", "exit1"} => emb.sleeps = emb.requests
    /\ emb.pc = "exit1" => emb.requests = MAX_RETRIES

RECURSIVE Pow2(_)
Pow2(k) == IF k <= 0 THEN 1 ELSE 2 * Pow2(k - 1)

\* C15: backoff schedule. Within one call the base delay of the k-th wait is
\* min(INITIAL_BACKOFF * 2^(k-1), MAX_BACKOFF), so it starts at
\* INITIAL_BACKOFF, doubles after each failed attempt and never exceeds
\* MAX_BACKOFF; the jitter added to a wait is in [0, 0.1) seconds, that is
\* 0..99 milliseconds.
C15_BackoffSchedule ==
  /\ emb.sleeps >= 1 =>
       /\ emb.last_sleep.base = Min(INITIAL_BACKOFF * Pow2(emb.sleeps - 1), MAX_BACKOFF)
       /\ emb.last_sleep.base <= MAX_BACKOFF
       /\ emb.last_sleep.jitter \in 0..99
  /\ emb.pc = "sleep" =>
       emb.backoff = Min(INITIAL_BACKOFF * Pow2(emb.sleeps), MAX_BACKOFF)
  /\ (emb.pc = "post" /\ emb.requests = 0) => emb.backoff = INITIAL_BACKOFF

C15_Witness ==
  /\ emb.sleeps = MAX_RETRIES
  /\ emb.last_sleep.base = 16
  /\ emb.last_sleep.jitter = 99
  /\ emb.pc = "exit1"

\* the embedding run ended with exit code 0 after embedding the resume
EmbedSucceeded == emb.pc = "exit0" /\ OUT_JSONL \in emb.written

\* C16: batching round trip. A successful Embed run over N input texts yields
\* exactly N records, and record i pairs the meta of input job i with the
\* vector of input text i, whatever the batch size.
C16_BatchingRoundTrip ==
  EmbedSucceeded =>
    emb.out_lines = [i \in 1..Len(emb.inputs) |->
                       [meta |-> i, embedding |-> VecOf(emb.inputs[i])]]

\* C17: one vector per input. Whenever call_openai_embeddings returns for a
\* batch of m texts, the returned list holds exactly the m vectors of those
\* texts in the order submitted, for every body a 200 response can carry.
C17_OneVectorPerInput ==
  emb.pc = "collect" =>
    emb.returned = [i \in 1..Len(emb.payload) |-> VecOf(emb.payload[i])]


\* ceil(n / b)
CeilDiv(n, b) == (n + b - 1) \div b

\* a request of call_openai_embeddings is being made or was just answered
InCall == emb.pc \in {"post", "sleep", "collect"}

\* the loop over the job batches has ended without an error
BatchesDone == emb.pc \in {"write_jsonl", "write_npy", "resume"}

\* C28: batch size bound. The job texts are split into consecutive batches
\* in input order: the k-th batch is inputs[(k-1)B+1 .. min(kB, N)], so every
\* request carries at most BATCH_SIZE texts, every batch but possibly the
\* last exactly BATCH_SIZE, and none is empty; a run in which every request
\* succeeds makes ceil(N / BATCH_SIZE) requests for them (0 when N = 0).
C28_BatchSizeBound ==
  LET N == Len(emb.inputs)
      B == emb.BATCH_SIZE
      k == emb.batch_calls
  IN /\ (InCall /\ emb.caller = "jobs") =>
          /\ k \in 1..CeilDiv(N, B)
          /\ emb.payload = SubSeq(emb.inputs, (k - 1) * B + 1, Min(k * B, N))
          /\ Len(emb.payload) >= 1
          /\ Len(emb.payload) <= B
          /\ k < CeilDiv(N, B) => Len(emb.payload) = B
     /\ BatchesDone =>
          /\ k = CeilDiv(N, B)
          /\ emb.job_requests >= CeilDiv(N, B)
          /\ emb.all_ok => emb.job_requests = CeilDiv(N, B)
          /\ N = 0 => emb.job_requests = 0

C28_Witness ==
  /\ emb.pc = "write_jsonl"
  /\ emb.all_ok
  /\ Len(emb.inputs) = 3
  /\ emb.BATCH_SIZE = 2
  /\ emb.job_requests = 2
  /\ Len(emb.out_lines) = 3

\* the raw length of the source text a submitted text was cut from
RawChars(x) == IF x.src = RESUME_TEXT THEN emb.resume_chars ELSE emb.jobs[x.src].chars

\* C29: input truncation. Every text submitted to the embedding service, job
\* text or resume text, has at most TRUNCATE_INPUT_CHARS characters plus the
\* marker; a text of at most TRUNCATE_INPUT_CHARS characters is submitted
\* unchanged and a longer one as its first TRUNCATE_INPUT_CHARS characters
\* followed by the marker.
C29_InputTruncation ==
  InCall =>
    \A i \in 1..Len(emb.payload) :
      LET x == emb.payload[i]
      IN /\ TextLen(x) <= TRUNCATE_INPUT_CHARS + MARKER_LEN
         /\ RawChars(x) <= TRUNCATE_INPUT_CHARS => x = Text(x.src, RawChars(x))
         /\ RawChars(x) > TRUNCATE_INPUT_CHARS =>
              x = [src |-> x.src, chars |-> TRUNCATE_INPUT_CHARS, marker |-> TRUE]

C29_Witness ==
  /\ emb.pc = "post"
  /\ emb.caller = "jobs"
  /\ emb.batch_calls = 2
  /\ emb.inputs[2] = Text(2, TRUNCATE_INPUT_CHARS)
  /\ emb.payload = << [src |-> 3, chars |-> TRUNCATE_INPUT_CHARS, marker |-> TRUE] >>
  /\ emb.jobs[3].chars = TRUNCATE_INPUT_CHARS + 1

C29_WitnessResume ==
  /\ emb.pc = "post"
  /\ emb.caller = "resume"
  /\ emb.resume_chars > TRUNCATE_INPUT_CHARS
  /\ emb.payload = << [src |-> RESUME_TEXT, chars |-> TRUNCATE_INPUT_CHARS, marker |-> TRUE] >>

(* ====================================================================== *)
(* Specification SpecRank: Stage4Similarity.py from the inside.            *)
(* rank_jobs scores every candidate against the resume vector with         *)
(* safe_cosine_similarity, sorts, slices and writes.  The state is rk.     *)
(* ====================================================================== *)
\* most candidate records in jobs_embeddings.jsonl
MaxCands == 3

\* float32 arithmetic, scaled down: vector components are integers, a value
\* above FLT_MAX overflows to infinity, a norm is kept to 1/NORM_UNITS
\* (rounded down) and a similarity to 1/SIM_UNITS
FLT_MAX == 100000
NORM_UNITS == 100
SIM_UNITS == 1000
\* a component whose square overflows
HUGE == 1000

\* embedding vectors found in the files (in tenths): the three of the
\* ranking scenario, the zero vector, two whose rounded quotient leaves
\* [-1, 1], and one whose norm overflows
Vecs ==
  { << 10, 0 >>, << 0, 10 >>, << 9, 1 >>, << 0, 0 >>, << 7, 7 >>,
    << 0 - 7, 0 - 7 >>, << HUGE, 0 >> }

\* --top values: negative, zero, fewer and more than the candidates, and the
\* default
TopNs == ((0 - 1)..(MaxCands + 1)) \cup {10}

\* a line of jobs_embeddings.jsonl: a record with an 'embedding' field, or one
\* without it
JobLines ==
  { [has_embedding |-> TRUE, embedding |-> v] : v \in Vecs }
    \cup { [has_embedding |-> FALSE, embedding |-> << >>] }

\* how many times rank_jobs is run over the same files
MaxRuns == 2

Max(a, b) == IF a >= b THEN a ELSE b

Fin(x) == [kind |-> "fin", v |-> x]
Inf(sign) == [kind |-> "inf", v |-> sign]
NaN == [kind |-> "nan", v |-> 0]

\* a float32 result: beyond FLT_MAX it is +-inf
F32(x) == IF x > FLT_MAX THEN Inf(1) ELSE IF x < 0 - FLT_MAX THEN Inf(0 - 1) ELSE Fin(x)

RECURSIVE DotTo(_, _, _)
DotTo(a, b, n) == IF n = 0 THEN 0 ELSE a[n] * b[n] + DotTo(a, b, n - 1)
\* np.dot(a, b)
Dot(a, b) == F32(DotTo(a, b, Len(a)))

\* floor of the square root, by bisection: lo * lo <= n < hi * hi
RECURSIVE ISqrtIn(_, _, _)
ISqrtIn(n, lo, hi) ==
  IF hi - lo <= 1 THEN lo
  ELSE LET mid == (lo + hi) \div 2
       IN IF mid * mid <= n THEN ISqrtIn(n, mid, hi) ELSE ISqrtIn(n, lo, mid)
ISqrt(n) == ISqrtIn(n, 0, Min(n, 46339) + 1)

\* np.linalg.norm(a), in 1/NORM_UNITS
Norm(a) ==
  LET ss == DotTo(a, a, Len(a))
  IN IF ss > FLT_MAX THEN Inf(1) ELSE Fin(ISqrt(ss * NORM_UNITS * NORM_UNITS))

\* norm_a * norm_b, in 1/NORM_UNITS^2
NormProductFirst(na, nb) ==
  IF na.kind = "inf" THEN Inf(1)
  ELSE IF na.v * na.v > FLT_MAX * NORM_UNITS * NORM_UNITS THEN Inf(1)
  ELSE Fin(na.v * na.v)
NormProduct(na, nb) ==
  IF na.kind = "inf" \/ nb.kind = "inf" THEN Inf(1)
  ELSE IF na.v * nb.v > FLT_MAX * NORM_UNITS * NORM_UNITS THEN Inf(1)
  ELSE Fin(na.v * nb.v)

\* np.dot(a, b) / (norm_a * norm_b), in 1/SIM_UNITS, for a non-zero divisor
Quotient(d, m) ==
  IF d.kind = "inf" /\ m.kind = "inf" THEN NaN
  ELSE IF m.kind = "inf" THEN Fin(0)
  ELSE IF d.kind = "inf" THEN d
  ELSE Fin((d.v * NORM_UNITS * NORM_UNITS * SIM_UNITS) \div m.v)

\* max(min(cos, 1.0), -1.0)
ClipNone(cos) == IF cos.kind = "inf" THEN cos.v * SIM_UNITS * 2 ELSE cos.v
Clip(cos) ==
  IF cos.kind = "inf" THEN cos.v * SIM_UNITS
  ELSE Max(Min(cos.v, SIM_UNITS), 0 - SIM_UNITS)

safe_cosine_similarity(a, b) ==
  LET norm_a == Norm(a)
      norm_b == Norm(b)
  IN IF norm_a = Fin(0) \/ norm_b = Fin(0) THEN 0
     ELSE LET cos == Quotient(Dot(a, b), NormProduct(norm_a, norm_b))
          IN IF cos.kind = "nan" THEN 0 ELSE Clip(cos)

\* sorted(results, key=similarity, reverse=True) is stable: a record goes
\* behind every record whose similarity is at least its own
RECURSIVE InsertAscending(_, _)
InsertAscending(x, s) ==
  IF s = << >> THEN << x >>
  ELSE IF Head(s).similarity <= x.similarity
       THEN << Head(s) >> \o InsertAscending(x, Tail(s))
       ELSE << x >> \o s
RECURSIVE InsertUnstable(_, _)
InsertUnstable(x, s) ==
  IF s = << >> THEN << x >>
  ELSE IF Head(s).similarity > x.similarity
       THEN << Head(s) >> \o InsertUnstable(x, Tail(s))
       ELSE << x >> \o s
RECURSIVE InsertDedup(_, _)
InsertDedup(x, s) ==
  IF s = << >> THEN << x >>
  ELSE IF Head(s).similarity = x.similarity THEN s
  ELSE IF Head(s).similarity > x.similarity
       THEN << Head(s) >> \o InsertDedup(x, Tail(s))
       ELSE << x >> \o s
RECURSIVE Insert(_, _)
Insert(x, s) ==
  IF s = << >> THEN << x >>
  ELSE IF Head(s).similarity >= x.similarity
       THEN << Head(s) >> \o Insert(x, Tail(s))
       ELSE << x >> \o s
RECURSIVE SortedDesc(_, _)
SortedDesc(results, n) ==
  IF n = 0 THEN << >> ELSE Insert(results[n], SortedDesc(results, n - 1))

\* results_sorted[:top_n], negative top_n counting from the end
SliceOneLess(s, n) == SubSeq(s, 1, Max(Min(n - 1, Len(s)), 0))
Slice(s, n) ==
  IF n >= 0 THEN SubSeq(s, 1, Min(n, Len(s)))
  ELSE SubSeq(s, 1, Max(Len(s) + n, 0))

\* f"{similarity:.6f}": a similarity to six decimals
Format6(sim) == sim * (1000000 \div SIM_UNITS)

\* the rows of top_jobs.csv
CsvRows(top_results) ==
  [i \in 1..Len(top_results) |->
     [rank |-> i, job_key |-> top_results[i].job_key,
      similarity |-> Format6(top_results[i].similarity)]]

\* what rank_jobs can find in the place of an input file
JobsFileStates == {"present", "missing"}
ResumeFileStates == {"present", "missing", "no_embedding"}

\* the jobs file rewritten with its last record lacking the 'embedding' field
Damaged(ls) ==
  IF ls = << >> THEN ls
  ELSE [ls EXCEPT ![Len(ls)] = [ls[Len(ls)] EXCEPT !.has_embedding = FALSE]]

\* before the first rank_jobs
InitRank ==
  /\ OrchOff
  /\ emb = Off
  /\ rs = Off
  /\ sc = Off
  /\ \E n \in 0..MaxCands :
       \E ls \in [1..n -> JobLines], r \in Vecs, top \in TopNs :
         rk = [ pc |-> "load", lines |-> ls, resume_vec |-> r, top_n |-> top,
                jobs |-> << >>, results |-> << >>, results_sorted |-> << >>,
                top_results |-> << >>, written |-> {},
                out_json |-> << >>, out_csv |-> << >>,
                run |-> 1, prev_top |-> << >>, prev_json |-> << >>, prev_csv |-> << >>,
                error |-> "none" ]

RankFrame == UNCHANGED << orchVars, emb, rs, sc >>

\* the error load_jobs_embeddings and load_resume_embedding raise, in the order
\* rank_jobs meets them: jobs file missing, a line without 'embedding', resume
\* file missing, resume object without 'embedding'
LoadError(jobs_file, ls, resume_file) ==
  IF jobs_file = "missing" THEN "jobs_file_missing"
  ELSE IF \E i \in 1..Len(ls) : ~ ls[i].has_embedding THEN "record_without_embedding"
  ELSE IF resume_file = "missing" THEN "resume_file_missing"
  ELSE IF resume_file = "no_embedding" THEN "resume_without_embedding"
  ELSE "none"

\* a rank_jobs that opens its output files for writing before it loads
RkLoadTruncating ==
  /\ rk.pc = "load"
  /\ \E jobs_file \in JobsFileStates, resume_file \in ResumeFileStates :
       LET err == LoadError(jobs_file, rk.lines, resume_file) IN
       IF err # "none"
       THEN rk' = [rk EXCEPT !.pc = "exit1", !.error = err,
                             !.written = rk.written \cup {STAGE4_TOP, STAGE4_TOP_CSV},
                             !.out_json = << >>, !.out_csv = << >>]
       ELSE rk' = [rk EXCEPT !.pc = "score",
                             !.jobs = [i \in 1..Len(rk.lines) |-> rk.lines[i].embedding]]
  /\ RankFrame

\* load_jobs_embeddings and load_resume_embedding: a missing file raises
\* FileNotFoundError, a line or a resume object without 'embedding' raises
\* ValueError, and nothing catches either
RkLoad ==
  /\ rk.pc = "load"
  /\ \E jobs_file \in JobsFileStates, resume_file \in ResumeFileStates :
       LET err == LoadError(jobs_file, rk.lines, resume_file) IN
       IF err # "none"
       THEN rk' = [rk EXCEPT !.pc = "exit1", !.error = err]
       ELSE rk' = [rk EXCEPT !.pc = "score",
                             !.jobs = [i \in 1..Len(rk.lines) |-> rk.lines[i].embedding]]
  /\ RankFrame

\* rank_jobs: results = [] and the loop that scores every record
RkScoreAppend ==
  /\ rk.pc = "score"
  /\ rk' = [rk EXCEPT !.pc = "sort",
                      !.results = rk.results \o
                                  [i \in 1..Len(rk.jobs) |->
                                     [job_key |-> i,
                                      similarity |-> safe_cosine_similarity(rk.resume_vec, rk.jobs[i])]]]
  /\ RankFrame
RkScore ==
  /\ rk.pc = "score"
  /\ rk' = [rk EXCEPT !.pc = "sort",
                      !.results = [i \in 1..Len(rk.jobs) |->
                                     [job_key |-> i,
                                      similarity |-> safe_cosine_similarity(rk.resume_vec, rk.jobs[i])]]]
  /\ RankFrame

\* rank_jobs: sorted(...) and the slice
RkSort ==
  /\ rk.pc = "sort"
  /\ LET results_sorted == SortedDesc(rk.results, Len(rk.results))
     IN rk' = [rk EXCEPT !.pc = "write_json",
                         !.results_sorted = results_sorted,
                         !.top_results = Slice(results_sorted, rk.top_n)]
  /\ RankFrame

\* rank_jobs: OUTPUT_JSON.write_text
RkWriteJson ==
  /\ rk.pc = "write_json"
  /\ rk' = [rk EXCEPT !.pc = "write_csv",
                      !.written = rk.written \cup {STAGE4_TOP},
                      !.out_json = rk.top_results]
  /\ RankFrame

\* rank_jobs: the CSV, the printed table and return top_results
RkWriteCsv ==
  /\ rk.pc = "write_csv"
  /\ rk' = [rk EXCEPT !.pc = "returned",
                      !.written = rk.written \cup {STAGE4_TOP_CSV},
                      !.out_csv = CsvRows(rk.top_results)]
  /\ RankFrame

\* the script is run again; the jobs file is the same or was rewritten with a
\* record that lacks its embedding
RkAgain ==
  /\ rk.pc = "returned"
  /\ rk.run < MaxRuns
  /\ \E ls \in {rk.lines, Damaged(rk.lines)} :
     rk' = [rk EXCEPT !.pc = "load", !.run = rk.run + 1, !.lines = ls,
                      !.prev_top = rk.top_results,
                      !.prev_json = rk.out_json, !.prev_csv = rk.out_csv,
                      !.jobs = << >>, !.results_sorted = << >>, !.top_results = << >>]
  /\ RankFrame

NextRank == RkLoad \/ RkScore \/ RkSort \/ RkWriteJson \/ RkWriteCsv \/ RkAgain

SpecRank == InitRank /\ [][NextRank]_vars

\* the quotient the code computes for two vectors of non-zero norm
RawCos(a, b) == Quotient(Dot(a, b), NormProduct(Norm(a), Norm(b)))
ZeroNorm(a) == \A i \in 1..Len(a) : a[i] = 0

\* C18: similarity range. For every resume vector and every candidate vector
\* the similarity rank_jobs records is safe_cosine_similarity of the two, it
\* lies within [-1, 1], it is exactly 0 when either vector has zero norm,
\* and it is 0 when the computed quotient is not-a-number.
C18_SimilarityRange ==
  rk.pc \notin {"off", "score"} =>
    \A i \in 1..Len(rk.jobs) :
      LET a == rk.resume_vec
          b == rk.jobs[i]
          sim == rk.results[i].similarity
      IN /\ sim = safe_cosine_similarity(a, b)
         /\ sim >= 0 - SIM_UNITS
         /\ sim <= SIM_UNITS
         /\ (ZeroNorm(a) \/ ZeroNorm(b)) => sim = 0
         /\ (~ ZeroNorm(a) /\ ~ ZeroNorm(b) /\ RawCos(a, b) = NaN) => sim = 0

\* a zero-norm candidate, a not-a-number quotient, and quotients that
\* overshoot 1 and -1 before the clip, all scored
C18_Witness ==
  /\ rk.pc = "returned"
  /\ rk.resume_vec = << 7, 7 >>
  /\ rk.jobs = << << 0, 0 >>, << 7, 7 >>, << 0 - 7, 0 - 7 >> >>
  /\ RawCos(rk.resume_vec, rk.jobs[2]).v > SIM_UNITS
  /\ RawCos(rk.resume_vec, rk.jobs[3]).v < 0 - SIM_UNITS
  /\ rk.results[2].similarity = SIM_UNITS
  /\ rk.results[3].similarity = 0 - SIM_UNITS
  /\ rk.results[1].similarity = 0

C18_WitnessNaN ==
  /\ rk.pc = "returned"
  /\ rk.resume_vec = << HUGE, 0 >>
  /\ Len(rk.jobs) >= 1
  /\ rk.jobs[1] = << HUGE, 0 >>
  /\ RawCos(rk.resume_vec, rk.jobs[1]) = NaN
  /\ rk.results[1].similarity = 0

\* C19 as stated: for every requested top_n, rank_jobs returns exactly
\* min(top_n, number of candidates) results, without an error.
C19_OutputLength ==
  rk.pc \in {"write_json", "write_csv", "returned"} =>
    Len(rk.top_results) = Min(rk.top_n, Len(rk.jobs))

\* C19 (amended): for every requested top_n >= 0, rank_jobs returns exactly
\* min(top_n, number of candidates) results, and asking for more than there
\* are is not an error; for a negative top_n the slice drops the last
\* |top_n| of the sorted candidates instead.
C19_OutputLengthNonNegative ==
  rk.pc \in {"write_json", "write_csv", "returned"} =>
    /\ rk.top_n >= 0 => Len(rk.top_results) = Min(rk.top_n, Len(rk.jobs))
    /\ rk.top_n < 0 => Len(rk.top_results) = Max(Len(rk.jobs) + rk.top_n, 0)

C19_Witness ==
  /\ rk.pc = "returned"
  /\ rk.top_n = 10
  /\ Len(rk.jobs) = 3
  /\ Len(rk.top_results) = 3
  /\ rk.written = {STAGE4_TOP, STAGE4_TOP_CSV}

\* C20: ranking order. The results are sorted by similarity non-increasing
\* and are the highest-similarity candidates: every candidate is in the
\* result or has a similarity no greater than that of every result; for
\* candidates [1,0], [0,1], [0.9,0.1], reference [1,0] and top = 2 the result
\* is the first then the third candidate.
C20_RankingOrder ==
  rk.pc \in {"write_json", "write_csv", "returned"} =>
    LET top == rk.top_results
        inTop(i) == \E k \in 1..Len(top) : top[k].job_key = i
    IN /\ \A k \in 1..(Len(top) - 1) : top[k].similarity >= top[k + 1].similarity
       /\ \A k \in 1..Len(top) :
            /\ top[k].job_key \in 1..Len(rk.jobs)
            /\ top[k] = rk.results[top[k].job_key]
       /\ \A k, l \in 1..Len(top) : k # l => top[k].job_key # top[l].job_key
       /\ \A i \in 1..Len(rk.jobs) :
            ~ inTop(i) => \A k \in 1..Len(top) : rk.results[i].similarity <= top[k].similarity
       /\ (/\ rk.jobs = << << 10, 0 >>, << 0, 10 >>, << 9, 1 >> >>
           /\ rk.resume_vec = << 10, 0 >>
           /\ rk.top_n = 2)
          => /\ Len(top) = 2
             /\ top[1].job_key = 1
             /\ top[2].job_key = 3
             /\ top[1].similarity = SIM_UNITS
             /\ top[2].similarity \in 990..999

C20_Witness ==
  /\ rk.pc = "returned"
  /\ rk.jobs = << << 10, 0 >>, << 0, 10 >>, << 9, 1 >> >>
  /\ rk.resume_vec = << 10, 0 >>
  /\ rk.top_n = 2
  /\ Len(rk.top_results) = 2
  /\ rk.top_results[1].job_key = 1
  /\ rk.top_results[2].job_key = 3

\* rank_jobs has sorted and sliced
Ranked == rk.pc \in {"write_json", "write_csv", "returned"}

\* candidate i is in the ranked output
InTop(i) == \E k \in 1..Len(rk.top_results) : rk.top_results[k].job_key = i

\* C21: ranking stability. Two candidates of identical similarity that both
\* appear in the output appear in their input order, and when a tie
\* straddles the top-N cut the earlier input record is the one kept.
C21_Stability ==
  Ranked =>
    LET top == rk.top_results
    IN /\ \A k, l \in 1..Len(top) :
            (k < l /\ top[k].similarity = top[l].similarity)
              => top[k].job_key < top[l].job_key
       /\ \A i \in 1..Len(rk.jobs) : \A k \in 1..Len(top) :
            (~ InTop(i) /\ rk.results[i].similarity = top[k].similarity)
              => top[k].job_key < i

C21_Witness ==
  /\ rk.pc = "returned"
  /\ rk.jobs = << << 0, 10 >>, << 0, 0 >>, << 0, 0 >> >>
  /\ rk.resume_vec = << 10, 0 >>
  /\ rk.top_n = 2
  /\ Len(rk.top_results) = 2
  /\ rk.top_results[1].job_key = 1
  /\ rk.top_results[2].job_key = 2
  /\ rk.top_results[1].similarity = rk.top_results[2].similarity
  /\ rk.results[3].similarity = rk.top_results[2].similarity

\* C22: ranker idempotence. A second rank_jobs over the same unchanged jobs
\* and resume files with the same top_n gives the same ranked output as the
\* first: same records in the same order with the same similarities, and the
\* same contents of top_jobs.json and top_jobs.csv.
C22_Idempotence ==
  (rk.pc = "returned" /\ rk.run >= 2) =>
    /\ rk.top_results = rk.prev_top
    /\ rk.out_json = rk.prev_json
    /\ rk.out_csv = rk.prev_csv

C22_Witness ==
  /\ rk.pc = "returned"
  /\ rk.run = 2
  /\ Len(rk.top_results) = 2
  /\ rk.top_results[1].similarity > rk.top_results[2].similarity
  /\ rk.out_csv = rk.prev_csv
  /\ Len(rk.out_csv) = 2

\* C23: no filtering in ranking. Every candidate record, those of
\* similarity 0 and zero vectors included, appears exactly once in the full
\* sorted set; the output is the first part of that set, so a candidate is
\* missing only because its position is beyond the cut, and with top_n at
\* least the candidate count the output holds every candidate.
C23_NoFiltering ==
  Ranked =>
    LET n == Len(rk.jobs)
        all == rk.results_sorted
    IN /\ Len(all) = n
       /\ \A i \in 1..n :
            /\ Cardinality({k \in 1..Len(all) : all[k].job_key = i}) = 1
            /\ \E k \in 1..Len(all) : all[k] = rk.results[i]
       /\ Len(rk.top_results) <= n
       /\ rk.top_results = SubSeq(all, 1, Len(rk.top_results))
       /\ rk.top_n >= n => rk.top_results = all

C23_Witness ==
  /\ rk.pc = "returned"
  /\ rk.jobs = << << 0, 0 >>, << 0, 10 >>, << 10, 0 >> >>
  /\ rk.resume_vec = << 10, 0 >>
  /\ rk.top_n = 3
  /\ Len(rk.top_results) = 3
  /\ InTop(1) /\ InTop(2) /\ InTop(3)

\* C24: malformed records are absorbed at record granularity. A
\* jobs-embedding line without an 'embedding' field is skipped alone and the
\* stage goes on with the remaining records instead of aborting.
C24_MalformedAbsorbed ==
  (rk.pc # "load" /\ \E i \in 1..Len(rk.lines) : ~ rk.lines[i].has_embedding) =>
    /\ rk.pc # "exit1"
    /\ Len(rk.jobs) = Cardinality({i \in 1..Len(rk.lines) : rk.lines[i].has_embedding})

\* C30: cosine similarity is symmetric. safe_cosine_similarity(a, b) equals
\* safe_cosine_similarity(b, a) for every pair of vectors of equal dimension,
\* zero vectors included: the score rank_jobs records for (resume, candidate)
\* is the score of (candidate, resume), and any two candidates score the
\* same either way round.
C30_Symmetric ==
  rk.pc \in {"sort", "write_json", "write_csv", "returned"} =>
    /\ \A i \in 1..Len(rk.jobs) :
         rk.results[i].similarity = safe_cosine_similarity(rk.jobs[i], rk.resume_vec)
    /\ \A i, j \in 1..Len(rk.jobs) :
         safe_cosine_similarity(rk.jobs[i], rk.jobs[j])
           = safe_cosine_similarity(rk.jobs[j], rk.jobs[i])

C30_Witness ==
  /\ rk.pc = "sort"
  /\ rk.resume_vec = << 10, 0 >>
  /\ rk.jobs = << << 9, 1 >>, << 0, 0 >>, << HUGE, 0 >> >>
  /\ rk.results[1].similarity \in 990..999
  /\ rk.results[2].similarity = 0
  /\ safe_cosine_similarity(rk.jobs[1], rk.resume_vec) = rk.results[1].similarity

\* the moves the per-stage state machine of the specification allows
StageEdges ==
  { << PENDING, SKIPPED >>, << PENDING, RUNNING >>,
    << RUNNING, SUCCEEDED >>, << RUNNING, FAILED >> }

\* C25 as stated: within one invocation each stage moves only along
\* PENDING -> SKIPPED or PENDING -> RUNNING -> (SUCCEEDED | FAILED).
C25_StateMachine ==
  [][inv' = inv =>
       \A s \in Stages :
         status'[s] # status[s] => << status[s], status'[s] >> \in StageEdges]_vars

\* C25 (amended): within one invocation each stage moves only along
\* PENDING -> SKIPPED, PENDING -> RUNNING -> (SUCCEEDED | FAILED), or, for a
\* stage refused for its missing credential, PENDING -> failed precondition
\* without ever RUNNING; no stage leaves a terminal state and no stage
\* enters RUNNING more than once.
C25_StateMachineWithRefusal ==
  [][inv' = inv =>
       \A s \in Stages :
         status'[s] # status[s] =>
           /\ << status[s], status'[s] >> \in StageEdges \cup {<< PENDING, FAILED_PRECONDITION >>}
           /\ status[s] \notin Terminal
           /\ status'[s] = RUNNING => status[s] = PENDING
           /\ status'[s] # PENDING]_vars

C25_Witness ==
  /\ status[1] = SKIPPED
  /\ status[2] = SUCCEEDED
  /\ status[3] = FAILED_PRECONDITION
  /\ status[4] = FAILED
  /\ Returned

\* C27: file ownership. A file is created or written only by the running
\* stage that owns it (Acquire: raw and stage1 files; Clean: cleaned-jobs and
\* resume files; Embed: embedding files; Rank: top-jobs files); no step
\* removes a file, so no stage deletes or rewrites an upstream file, and a
\* stage that is skipped leaves every file as it was.
C27_FileOwnership ==
  [][/\ files \subseteq files'
     /\ inv' = inv =>
          \A f \in (files' \ files) \cup (wrote' \ wrote) :
            /\ opc \in Stages
            /\ status[opc] = RUNNING
            /\ f \in StageFiles(opc)
     /\ \A s \in Stages :
          (status[s] # SKIPPED /\ status'[s] = SKIPPED) => (files' = files /\ wrote' = wrote)]_vars

C27_Witness ==
  /\ status[4] = SUCCEEDED
  /\ {STAGE1_RAW, STAGE1_OUT, STAGE2_OUT_JSON, STAGE2_RESUME_PROCESSED,
      STAGE3_JOBS_EMBED, STAGE3_RESUME_EMBED, STAGE4_TOP, STAGE4_TOP_CSV} \subseteq wrote
  /\ files0 = {}

(* ====================================================================== *)
(* Specification SpecRunScript: one call run_script(script, timeout=...)   *)
(* and the rc test orchestrate() applies to its result.  The state is rs.  *)
(* ====================================================================== *)
\* longest timeout given to run_script, and longest run of a child, in ticks
MaxTimeout == 2
MaxDuration == 3

\* timeout=None
NoTimeout == 0 - 1

InitRunScript ==
  /\ OrchOff
  /\ emb = Off
  /\ rk = Off
  /\ sc = Off
  /\ \E t \in {NoTimeout} \cup 1..MaxTimeout, ok \in BOOLEAN, d \in 0..MaxDuration,
        c \in {"exit0", "exit1"}, soe \in BOOLEAN :
       rs = [ pc |-> "call", timeout |-> t, stop_on_error |-> soe,
              launch_ok |-> ok, duration |-> d, child |-> c,
              elapsed |-> 0, ended |-> "none", rc |-> NoRc,
              status |-> PENDING, ret |-> NoRc ]

RunScriptFrame == UNCHANGED << orchVars, emb, rk, sc >>

\* subprocess.run starts the child; an exception other than TimeoutExpired
\* (the interpreter cannot be started) makes run_script return 1
RsLaunch ==
  /\ rs.pc = "call"
  /\ IF rs.launch_ok
     THEN rs' = [rs EXCEPT !.pc = "running", !.status = RUNNING]
     ELSE rs' = [rs EXCEPT !.pc = "rc", !.status = RUNNING, !.ended = "launch_error",
                           !.rc = run_script("launch_error")]
  /\ RunScriptFrame

\* the child runs for another tick
RsTick ==
  /\ rs.pc = "running"
  /\ rs.elapsed < rs.duration
  /\ rs.timeout = NoTimeout \/ rs.elapsed < rs.timeout
  /\ rs' = [rs EXCEPT !.elapsed = rs.elapsed + 1]
  /\ RunScriptFrame

\* the child exits in time: return proc.returncode
RsExit ==
  /\ rs.pc = "running"
  /\ rs.elapsed = rs.duration
  /\ rs' = [rs EXCEPT !.pc = "rc", !.ended = rs.child, !.rc = run_script(rs.child)]
  /\ RunScriptFrame

\* the child is still running when the timeout expires: TimeoutExpired
RsTimeout ==
  /\ rs.pc = "running"
  /\ rs.timeout # NoTimeout
  /\ rs.elapsed = rs.timeout
  /\ rs.elapsed < rs.duration
  /\ rs' = [rs EXCEPT !.pc = "rc", !.ended = "timeout", !.rc = run_script("timeout")]
  /\ RunScriptFrame

\* orchestrate: if rc != 0 and stop_on_error: return rc
RsPolicy ==
  /\ rs.pc = "rc"
  /\ rs' = [rs EXCEPT !.status = IF rs.rc = 0 THEN SUCCEEDED ELSE FAILED,
                      !.ret = IF rs.rc # 0 /\ rs.stop_on_error THEN rs.rc ELSE NoRc,
                      !.pc = IF rs.rc # 0 /\ rs.stop_on_error THEN "halted" ELSE "next_stage"]
  /\ RunScriptFrame

NextRunScript == RsLaunch \/ RsTick \/ RsExit \/ RsTimeout \/ RsPolicy

SpecRunScript == InitRunScript /\ [][NextRunScript]_vars

\* C26: timeout outcome. When the child outlives the timeout given to
\* run_script, run_script returns 124, which differs from the 1 it returns
\* when the child cannot be launched; the rc test then treats the stage as
\* FAILED and applies the policy: under fail-fast orchestrate returns 124,
\* under continue-on-error it goes on to the next stage.
C26_TimeoutOutcome ==
  /\ rs.ended = "timeout" =>
       /\ rs.rc = 124
       /\ rs.rc # run_script("launch_error")
       /\ rs.elapsed = rs.timeout
       /\ rs.pc \in {"rc", "halted", "next_stage"}
       /\ rs.pc # "rc" =>
            /\ rs.status = FAILED
            /\ rs.stop_on_error => (rs.pc = "halted" /\ rs.ret = 124)
            /\ ~ rs.stop_on_error => (rs.pc = "next_stage" /\ rs.ret = NoRc)
  /\ rs.ended = "launch_error" => rs.rc = 1
  /\ (rs.pc = "running" /\ rs.timeout # NoTimeout) => rs.elapsed <= rs.timeout

C26_Witness ==
  /\ rs.ended = "timeout"
  /\ rs.pc = "halted"
  /\ rs.ret = 124
  /\ rs.child = "exit0"
  /\ rs.timeout = 2

\* C32: every backoff wait is followed by a retry. When a call of
\* call_openai_embeddings has ended, by returning or by raising, it has
\* waited once less than it has made requests: no wait follows an attempt
\* that is not retried.
C32_WaitsAreFollowedByRetry ==
  (emb.pc \in {"collect", "exit1"} /\ emb.requests >= 1) =>
    emb.sleeps = emb.requests - 1

\* C33: transient-then-success. A call whose first k requests were answered
\* with transient errors (0 <= k < MAX_RETRIES) and whose next request was
\* answered with a success returns the vectors of that answer after exactly
\* k + 1 requests and k waits, every request carrying the same payload, and
\* raises nothing.
C33_TransientThenSuccess ==
  /\ [](emb.pc = "collect" =>
          /\ emb.last_resp.status = 200
          /\ emb.requests = emb.sleeps + 1
          /\ emb.requests \in 1..MAX_RETRIES
          /\ emb.returned = DataEmbeddings(emb.payload, emb.last_resp.data))
  /\ [][(emb.pc \in {"post", "sleep"} /\ emb'.pc \in {"post", "sleep", "collect"})
          => emb'.payload = emb.payload]_vars
  /\ [][(emb.pc = "post" /\ emb'.pc = "collect") =>
          /\ emb'.requests = emb.sleeps + 1
          /\ emb'.last_resp.status = 200]_vars

C33_Witness ==
  /\ emb.pc = "collect"
  /\ emb.caller = "jobs"
  /\ emb.sleeps = MAX_RETRIES - 1
  /\ emb.requests = MAX_RETRIES
  /\ Len(emb.payload) = 2
  /\ emb.returned = << VecOf(emb.payload[1]), VecOf(emb.payload[2]) >>

\* C34: batches are sequential and all-or-nothing. A batch is requested
\* only from the head of the loop, after the batch before it has been
\* answered with a success and collected; once a batch has failed the run
\* makes no further request, and a run that failed in a batch has written
\* no file, jobs_embeddings.jsonl least of all.
C34_SequentialAllOrNothing ==
  /\ [](/\ OUT_JSONL \in emb.written =>
             (emb.chunks = << >> /\ emb.batch_calls = CeilDiv(Len(emb.inputs), emb.BATCH_SIZE))
        /\ (InCall /\ emb.caller = "jobs") => emb.written = {})
  /\ [][(InCall /\ emb.caller = "jobs" /\ emb'.pc = "exit1") => emb'.written = {}]_vars
  /\ [][emb'.batch_calls # emb.batch_calls =>
          /\ emb.pc = "chunk"
          /\ emb'.batch_calls = emb.batch_calls + 1
          /\ emb.batch_calls > 0 => (emb.last_resp.status = 200 /\ emb.last_resp.data # "none")]_vars
  /\ [][emb.pc = "exit1" => emb' = emb]_vars

C34_Witness ==
  /\ emb.pc = "exit1"
  /\ emb.caller = "jobs"
  /\ emb.batch_calls = 2
  /\ Len(emb.chunks) = 1
  /\ Len(emb.out_lines) = 1
  /\ emb.last_resp.status = 401
  /\ emb.written = {}

\* ---------------------------------------------------------------------------
\* The alternate-payload acquisition script (indeed_full_scraper_try_alts.py)
\* seen from inside: main()'s loop over the payload variants, and under each
\* session.post the requests the mounted HTTPAdapter puts on the wire.
\* ---------------------------------------------------------------------------

MAX_TOTAL_ATTEMPTS == 3
RETRIES == 1

\* PAYLOAD_ATTEMPTS: the base payload followed by the three alternates
PAYLOAD_ATTEMPTS == << "base", "alt_city", "alt_state", "alt_query" >>

RAW_JSON == "indeed_response_raw.json"
OUTPUT_JSON == "stage1_jobs.json"
OUTPUT_CSV == "stage1_jobs.csv"

\* what the provider does with one request on the wire: 200 with a job list,
\* 200 without one, a status outside the force list (400), a status of the
\* force list (429, 500, 502, 503), or no response at all
ProviderAnswers == {"jobs", "no_jobs", "client_error", "forcelisted", "conn_error"}

\* Retry(total=RETRIES, status_forcelist=[429, 500, 502, 503],
\* allowed_methods={"POST", "GET"}): the adapter sends the POST again after a
\* force-listed status or a connection error while retries are left
AdapterResends(answer, tries) ==
  answer \in {"forcelisted", "conn_error"} /\ tries < RETRIES

InitScraper ==
  /\ OrchOff
  /\ emb = Off
  /\ rk = Off
  /\ rs = Off
  /\ sc = [ pc |-> "loop", i |-> 1, attempt_count |-> 0, tries |-> 0,
            wire_posts |-> 0, last |-> "none", final_jobs |-> FALSE,
            written |-> {} ]

ScraperFrame == UNCHANGED << orchVars, emb, rk, rs >>

\* the head of "for payload in PAYLOAD_ATTEMPTS": the loop ends when the
\* payloads are used up or attempt_count has reached MAX_TOTAL_ATTEMPTS;
\* otherwise attempt_count += 1 and attempt_post_and_extract is entered
ScLoopHead ==
  /\ sc.pc = "loop"
  /\ sc' = IF sc.i > Len(PAYLOAD_ATTEMPTS) \/ sc.attempt_count >= MAX_TOTAL_ATTEMPTS
             THEN [sc EXCEPT !.pc = "after"]
             ELSE [sc EXCEPT !.pc = "post", !.attempt_count = sc.attempt_count + 1,
                             !.tries = 0]
  /\ ScraperFrame

\* one POST on the wire under session.post, and what attempt_post_and_extract
\* and main() do with the provider's answer
ScWirePost ==
  /\ sc.pc = "post"
  /\ \E answer \in ProviderAnswers :
       LET sent == [sc EXCEPT !.wire_posts = sc.wire_posts + 1, !.last = answer] IN
       sc' = IF AdapterResends(answer, sc.tries)
               THEN [sent EXCEPT !.tries = sc.tries + 1]
             ELSE IF answer = "jobs"
               THEN [sent EXCEPT !.pc = "after", !.final_jobs = TRUE,
                                 !.written = sc.written \cup {RAW_JSON}]
             ELSE IF answer \in {"no_jobs", "client_error"}
               THEN [sent EXCEPT !.pc = "loop", !.i = sc.i + 1,
                                 !.written = sc.written \cup {RAW_JSON}]
             ELSE [sent EXCEPT !.pc = "loop", !.i = sc.i + 1]
  /\ ScraperFrame

\* after the loop: return without output when no job list was found,
\* write_outputs otherwise
ScFinish ==
  /\ sc.pc = "after"
  /\ sc' = IF sc.final_jobs
             THEN [sc EXCEPT !.pc = "exit0",
                             !.written = sc.written \cup {OUTPUT_JSON, OUTPUT_CSV}]
             ELSE [sc EXCEPT !.pc = "exit0"]
  /\ ScraperFrame

NextScraper == ScLoopHead \/ ScWirePost \/ ScFinish

SpecScraper == InitScraper /\ [][NextScraper]_vars

\* C31: one run of the alternate-payload script puts at most
\* MAX_TOTAL_ATTEMPTS POST requests on the wire, the adapter's retries
\* counted with the payload variants.
C31_AtMostMaxTotalPosts ==
  sc.wire_posts <= MAX_TOTAL_ATTEMPTS

\* what the code does keep: attempt_count, the number of payload variants
\* tried, never exceeds MAX_TOTAL_ATTEMPTS, and each variant costs at most
\* 1 + RETRIES requests
C31_AttemptsBounded ==
  /\ sc.attempt_count <= MAX_TOTAL_ATTEMPTS
  /\ sc.wire_posts <= sc.attempt_count * (1 + RETRIES)

C31_SixPosts ==
  sc.pc = "exit0" /\ sc.wire_posts = MAX_TOTAL_ATTEMPTS * (1 + RETRIES)

\* C35: success implies checkpoint. Whenever a stage run by the orchestrator
\* has ended with exit code 0 (outcome SUCCEEDED), all of the stage's declared
\* output files exist.
C35_SuccessImpliesCheckpoint ==
  \A s \in Stages : status[s] = SUCCEEDED => DeclaredOutputs(s) \subseteq files

\* the same, stage by stage
C35_Stage1 == status[1] = SUCCEEDED => DeclaredOutputs(1) \subseteq files
C35_Stage2 == status[2] = SUCCEEDED => DeclaredOutputs(2) \subseteq files
C35_Stage3 == status[3] = SUCCEEDED => DeclaredOutputs(3) \subseteq files
C35_Stage4 == status[4] = SUCCEEDED => DeclaredOutputs(4) \subseteq files

\* the outcomes of the stages before s in this invocation
Upstream(s) == [t \in 1..(s - 1) |-> status[t]]

\* the inputs of the skip test of stage s: its flag and its own output files
SkipInputs(s) ==
  [ flag |-> args.skip[s],
    outputs |-> DeclaredOutputs(s) \subseteq files,
    force |-> s = 1 /\ args.force_stage1 ]

\* C37: skip decisions are local. When the orchestrator decides stage s, it
\* skips the stage exactly when the stage's own skip flag is set, or the
\* stage's own output files exist (and, for Acquire, the force flag is not
\* set), whatever the stages before it did in this invocation: ran and
\* succeeded, ran and failed, were skipped, or failed their precondition. So
\* Rank is skipped whenever top_jobs.json exists, also right after Embed has
\* written new embeddings.
C37_SkipDecisionsLocal ==
  [][ \A s \in Stages :
        (opc = s /\ status[s] = PENDING /\ status'[s] # PENDING) =>
          /\ Upstream(s) \in [1..(s - 1) -> {SKIPPED, SUCCEEDED, FAILED, FAILED_PRECONDITION}]
          /\ (status'[s] = SKIPPED) <=>
               (SkipInputs(s).flag \/
                  (SKIP_IF_OUTPUT_EXISTS /\ SkipInputs(s).outputs /\ ~ SkipInputs(s).force))
          /\ (s = 4 /\ SKIP_IF_OUTPUT_EXISTS /\ STAGE4_TOP \in files) => status'[4] = SKIPPED
          /\ \A t \in 1..(s - 1) : status'[t] = status[t] ]_vars

\* Embed ran in this invocation and wrote both embedding files, and Rank was
\* then skipped without its flag because top_jobs.json was there from before
C37_Witness ==
  /\ status[3] = SUCCEEDED
  /\ {STAGE3_JOBS_EMBED, STAGE3_RESUME_EMBED} \subseteq wrote
  /\ status[4] = SKIPPED
  /\ ~ args.skip[4]
  /\ STAGE4_TOP \in files0

\* the same decision after an upstream failure
C37_WitnessAfterFailure ==
  /\ status[3] = FAILED
  /\ args.continue_on_error
  /\ status[4] = SKIPPED
  /\ ~ args.skip[4]

LoadErrors ==
  {"jobs_file_missing", "record_without_embedding", "resume_file_missing",
   "resume_without_embedding"}

\* C36: ranker errors leave outputs unchanged. When rank_jobs fails because
\* the jobs-embedding file or the resume-embedding file is missing, or because
\* a record or the resume object has no 'embedding' field, it raises while
\* loading, before any write: top_jobs.json and top_jobs.csv are not created
\* by a first run and keep the content of the run before otherwise.
C36_ErrorsLeaveOutputsUnchanged ==
  /\ [](rk.pc = "exit1" =>
          /\ rk.error \in LoadErrors
          /\ rk.out_json = rk.prev_json
          /\ rk.out_csv = rk.prev_csv
          /\ rk.run = 1 => rk.written = {})
  /\ [][(rk.pc # "off" /\ rk'.pc = "exit1" /\ rk.pc # "exit1") =>
          /\ rk.pc = "load"
          /\ rk'.written = rk.written
          /\ rk'.out_json = rk.out_json
          /\ rk'.out_csv = rk.out_csv]_vars
  /\ [][rk.pc = "exit1" => rk' = rk]_vars

\* a second run fails on a missing resume file with a ranking of the first
\* run on disk
C36_Witness ==
  /\ rk.pc = "exit1"
  /\ rk.run = 2
  /\ rk.error = "resume_file_missing"
  /\ Len(rk.out_json) >= 2
  /\ Len(rk.out_csv) >= 2
  /\ rk.written = {STAGE4_TOP, STAGE4_TOP_CSV}

\* the other three causes
C36_WitnessJobsFile ==
  rk.pc = "exit1" /\ rk.run = 2 /\ rk.error = "jobs_file_missing" /\ Len(rk.out_json) >= 1
C36_WitnessRecord ==
  rk.pc = "exit1" /\ rk.run = 2 /\ rk.error = "record_without_embedding" /\ Len(rk.out_json) >= 1
C36_WitnessResumeObject ==
  rk.pc = "exit1" /\ rk.run = 1 /\ rk.error = "resume_without_embedding" /\ rk.written = {}

====
